---- MODULE Spec2Model ----
(***************************************************************************)
(* The 2048 engine of src/engine.py as a state machine.                    *)
(*                                                                         *)
(* A board is a sequence of 4 rows, each a sequence of 4 naturals; the     *)
(* Python index i of the source is the index i + 1 here.  The session      *)
(* state is the module globals gameboard, points, victory_count, the       *)
(* leaderboard file and the text of the BEST label.  Each handler the      *)
(* interface binds (a direction key, the New Game and Reset Highscore      *)
(* menu entries) is one action.  The variable last keeps what the last     *)
(* handler call computed on its way, so that the steps inside one call     *)
(* (move, merge, move, add_two, check_endgame, the prompt) can be stated.  *)
(***************************************************************************)
EXTENDS Integers, Sequences, FiniteSets, TLC

VARIABLES gameboard, points, victory_count, LEADERBOARD, label_highscore,
          last, budget

vars == <<gameboard, points, victory_count, LEADERBOARD, label_highscore,
          last, budget>>

(***************************************************************************)
(* Bounds of the model and constants of the program.                       *)
(***************************************************************************)
\* range(4): the side of the board
N == 4
\* the leaderboard keeps scores[:2]
Retention == 2
\* the value whose first appearance raises the celebration
Target == 2048
\* handler calls in one run
MaxCalls == 2
\* choice(empty_cells) draws among the first MaxChoice empty cells
MaxChoice == 1
\* randint(0, 3) of initialisation() draws among the first MaxRandint values
MaxRandint == 2

Min(a, b) == IF a < b THEN a ELSE b

Directions == {"UP", "DOWN", "LEFT", "RIGHT"}
\* position() takes any string; "OTHER" stands for every unrecognised one
Tokens == Directions \cup {"OTHER"}

(***************************************************************************)
(* Lists.                                                                  *)
(***************************************************************************)
\* while 0 in row: row.remove(0)
Remove0(row) == SelectSeq(row, LAMBDA x : x # 0)

Zeros(n) == [k \in 1..n |-> 0]

\* [tab[i][j] for i in range(4)]
Column(tab, j) == [i \in 1..N |-> tab[i][j]]

RECURSIVE SeqSum(_)
SeqSum(s) == IF s = <<>> THEN 0 ELSE Head(s) + SeqSum(Tail(s))

RECURSIVE SeqMax(_)
SeqMax(s) == IF Len(s) = 1 THEN s[1]
             ELSE LET m == SeqMax(Tail(s)) IN IF s[1] >= m THEN s[1] ELSE m

\* insertion of x into a list sorted in descending order; an entry of the
\* list is <<value, bool>> (see the leaderboard file below) and is compared
\* by its value, as Python compares an int with a bool
RECURSIVE InsertDesc(_, _)
InsertDesc(x, s) == IF s = <<>> THEN <<x>>
                    ELSE IF x[1] >= Head(s)[1] THEN <<x>> \o s
                    ELSE <<Head(s)>> \o InsertDesc(x, Tail(s))

\* scores.sort(reverse=True): equal entries keep their order
RECURSIVE SortDesc(_)
SortDesc(s) == IF s = <<>> THEN <<>> ELSE InsertDesc(Head(s), SortDesc(Tail(s)))

(***************************************************************************)
(* The four moves (compaction).                                            *)
(***************************************************************************)
move_right(tab) ==
    [i \in 1..N |-> LET row == Remove0(tab[i]) IN Zeros(N - Len(row)) \o row]

move_left(tab) ==
    [i \in 1..N |-> LET row == Remove0(tab[i]) IN row \o Zeros(N - Len(row))]

move_up(tab) ==
    [i \in 1..N |-> [j \in 1..N |->
        LET column == Remove0(Column(tab, j))
        IN  (column \o Zeros(N - Len(column)))[i]]]

move_down(tab) ==
    [i \in 1..N |-> [j \in 1..N |->
        LET column == Remove0(Column(tab, j))
        IN  (Zeros(N - Len(column)) \o column)[i]]]

(***************************************************************************)
(* The four merges.  Each is a scan of 12 comparisons in the order of the  *)
(* source's two loops; a comparison that finds the two cells equal zeroes  *)
(* the cell scanned, doubles its neighbour and adds the doubled value to   *)
(* the score.  st is [tab, score]; c is <<i, j, di, dj>>: the cell scanned *)
(* (i, j) and its neighbour (i + di, j + dj).                              *)
(***************************************************************************)
MergeStep(st, c) ==
    LET i == c[1]
        j == c[2]
        ni == c[1] + c[3]
        nj == c[2] + c[4]
    IN  IF st.tab[ni][nj] = st.tab[i][j]
        THEN LET zeroed == [st.tab EXCEPT ![i][j] = 0]
                 doubled == [zeroed EXCEPT ![ni][nj] = 2 * zeroed[ni][nj]]
             IN  [tab |-> doubled, score |-> st.score + doubled[ni][nj]]
        ELSE st

RECURSIVE MergeScan(_, _)
MergeScan(st, cells) ==
    IF cells = <<>> THEN st ELSE MergeScan(MergeStep(st, Head(cells)), Tail(cells))

\* for i in range(4): for j in range(2, -1, -1): tab[i][j + 1] == tab[i][j]
MergeRightOrder ==
    [k \in 1..(N * (N - 1)) |->
        <<((k - 1) \div (N - 1)) + 1, (N - 1) - ((k - 1) % (N - 1)), 0, 1>>]

\* for i in range(4): for j in range(1, 4): tab[i][j - 1] == tab[i][j]
MergeLeftOrder ==
    [k \in 1..(N * (N - 1)) |->
        <<((k - 1) \div (N - 1)) + 1, ((k - 1) % (N - 1)) + 2, 0, -1>>]

\* for i in range(1, 4): for j in range(4): tab[i - 1][j] == tab[i][j]
MergeUpOrder ==
    [k \in 1..(N * (N - 1)) |->
        <<((k - 1) \div N) + 2, ((k - 1) % N) + 1, -1, 0>>]

\* for i in range(2, -1, -1): for j in range(4): tab[i + 1][j] == tab[i][j]
MergeDownOrder ==
    [k \in 1..(N * (N - 1)) |->
        <<(N - 1) - ((k - 1) \div N), ((k - 1) % N) + 1, 1, 0>>]

\* A merge that goes wrong in one of two ways: "keep" forgets tab[i][j] = 0,
\* "add" adds the cell scanned to its doubled neighbour before zeroing it.
WrongStep(st, c, how) ==
    LET i == c[1]
        j == c[2]
        ni == c[1] + c[3]
        nj == c[2] + c[4]
        v == st.tab[i][j]
    IN  IF st.tab[ni][nj] = v
        THEN [tab |-> [st.tab EXCEPT ![i][j] = IF how = "keep" THEN v ELSE 0,
                                     ![ni][nj] = IF how = "add" THEN 3 * v ELSE 2 * v],
              score |-> st.score + 2 * v]
        ELSE st

RECURSIVE WrongScan(_, _, _)
WrongScan(st, cells, how) ==
    IF cells = <<>> THEN st
    ELSE WrongScan(WrongStep(st, Head(cells), how), Tail(cells), how)

\* merge_right whose doubled tile also takes the value of the tile it absorbs
merge_right_add(tab, score) ==
    WrongScan([tab |-> tab, score |-> score], MergeRightOrder, "add")

merge_right(tab, score) == MergeScan([tab |-> tab, score |-> score], MergeRightOrder)

\* merge_left that merges again what its first pass doubled
merge_left_again(tab, score) ==
    LET once == MergeScan([tab |-> tab, score |-> score], MergeLeftOrder)
    IN  MergeScan([tab |-> move_left(once.tab), score |-> once.score], MergeLeftOrder)

merge_left(tab, score) == MergeScan([tab |-> tab, score |-> score], MergeLeftOrder)

\* merge_up that adds to the score the value before the merge, not the doubled one
merge_up_premerge(tab, score) ==
    LET m == MergeScan([tab |-> tab, score |-> score], MergeUpOrder)
    IN  [tab |-> m.tab, score |-> score + ((m.score - score) \div 2)]

merge_up(tab, score) == MergeScan([tab |-> tab, score |-> score], MergeUpOrder)

\* merge_down that scans the rows from the top, as merge_up does
merge_down_upward(tab, score) ==
    MergeScan([tab |-> tab, score |-> score],
              [k \in 1..(N * (N - 1)) |->
                  <<((k - 1) \div N) + 1, ((k - 1) % N) + 1, 1, 0>>])

\* merge_down that doubles the neighbour and leaves the cell scanned as it was
merge_down_keep(tab, score) ==
    WrongScan([tab |-> tab, score |-> score], MergeDownOrder, "keep")

merge_down(tab, score) == MergeScan([tab |-> tab, score |-> score], MergeDownOrder)

\* position() without the second move of each branch
MoveMergeOnce(position_user, tab, score) ==
    LET m == IF position_user = "UP" THEN merge_up(move_up(tab), score)
             ELSE IF position_user = "DOWN" THEN merge_down(move_down(tab), score)
             ELSE IF position_user = "LEFT" THEN merge_left(move_left(tab), score)
             ELSE merge_right(move_right(tab), score)
    IN  [tab |-> [i \in 1..N |-> [j \in 1..N |-> m.tab[i][j]]], score |-> m.score]

(***************************************************************************)
(* position(), lines 262-277: move, merge, move in the direction asked;    *)
(* the final else takes every token that is not UP, DOWN or LEFT.          *)
(***************************************************************************)
MoveMerge(position_user, tab, score) ==
    IF position_user = "UP"
    THEN LET m == merge_up(move_up(tab), score)
         IN  [tab |-> move_up(m.tab), score |-> m.score]
    ELSE IF position_user = "DOWN"
    THEN LET m == merge_down(move_down(tab), score)
         IN  [tab |-> move_down(m.tab), score |-> m.score]
    ELSE IF position_user = "LEFT"
    THEN LET m == merge_left(move_left(tab), score)
         IN  [tab |-> move_left(m.tab), score |-> m.score]
    ELSE LET m == merge_right(move_right(tab), score)
         IN  [tab |-> move_right(m.tab), score |-> m.score]

(***************************************************************************)
(* initialisation(): an empty board with two values, 2 or 4, at two        *)
(* positions; the second position is drawn again while it equals the first.*)
(***************************************************************************)
EmptyBoard == [i \in 1..N |-> Zeros(N)]

\* randint(0, 3), randint(0, 3)
RandomPositions == (1..Min(N, MaxRandint)) \X (1..Min(N, MaxRandint))

\* the second position without the loop that draws it again
SecondPositionsAny(first) == RandomPositions

\* while random_position[0:2] == random_position[2:4]: draw [2:4] again
SecondPositions(first) == {second \in RandomPositions : second # first}

initialisation ==
    {[[EmptyBoard EXCEPT ![first[1]][first[2]] = v1]
                  EXCEPT ![second[1]][second[2]] = v2] :
        <<first, second, v1, v2>> \in
            {r \in RandomPositions \X RandomPositions \X {2, 4} \X {2, 4} :
                r[2] \in SecondPositions(r[1])}}

(***************************************************************************)
(* add_two(): the empty cells in row-major order; when there is one, the   *)
(* k-th of them takes v.  k and v are the two draws of choice().           *)
(***************************************************************************)
AllCells == [k \in 1..(N * N) |-> <<((k - 1) \div N) + 1, ((k - 1) % N) + 1>>]

empty_cells(tab) == SelectSeq(AllCells, LAMBDA c : tab[c[1]][c[2]] = 0)

\* add_two() that writes the k-th cell of the board, empty or not
add_two_any(tab, k, v) ==
    [tab EXCEPT ![AllCells[k][1]][AllCells[k][2]] = v]

add_two(tab, k, v) ==
    LET cells == empty_cells(tab)
    IN  IF cells # <<>>
        THEN [tab EXCEPT ![cells[k][1]][cells[k][2]] = v]
        ELSE tab

\* position() that calls add_two whether or not the board changed
SpawnAlways(check_board, tab, k, v) == add_two(tab, k, v)

\* position(), lines 280-281: if check_board != tab: tab = add_two(tab)
Spawn(check_board, tab, k, v) ==
    IF check_board # tab THEN add_two(tab, k, v) ELSE tab

\* the draws choice(empty_cells) can make, within MaxChoice
Choices(tab) ==
    IF empty_cells(tab) = <<>> THEN {1}
    ELSE 1..Min(MaxChoice, Len(empty_cells(tab)))

(***************************************************************************)
(* check_endgame(): first the celebration (victory_count is written), then *)
(* the three tests, each returning False at its first hit.                 *)
(***************************************************************************)
\* for i in range(4): for j in range(3): tab[i][j] == tab[i][j + 1]
HorizontalOrder ==
    [k \in 1..(N * (N - 1)) |->
        <<((k - 1) \div (N - 1)) + 1, ((k - 1) % (N - 1)) + 1, 0, 1>>]

\* for i in range(3): for j in range(4): tab[i][j] == tab[i + 1][j]
VerticalOrder ==
    [k \in 1..((N - 1) * N) |->
        <<((k - 1) \div N) + 1, ((k - 1) % N) + 1, 1, 0>>]

RECURSIVE AnyEqual(_, _)
AnyEqual(tab, cells) ==
    IF cells = <<>> THEN FALSE
    ELSE LET c == Head(cells)
         IN  IF tab[c[1]][c[2]] = tab[c[1] + c[3]][c[2] + c[4]] THEN TRUE
             ELSE AnyEqual(tab, Tail(cells))

\* any(x in element for element in tab)
AnyIn(x, tab) == \E i \in 1..N : \E j \in 1..N : tab[i][j] = x

\* check_endgame that raises the celebration whenever the board holds Target
check_endgame_always(tab, count) ==
    LET celebrate == AnyIn(Target, tab)
        result == IF AnyIn(0, tab) THEN FALSE
                  ELSE IF AnyEqual(tab, HorizontalOrder) THEN FALSE
                  ELSE IF AnyEqual(tab, VerticalOrder) THEN FALSE
                  ELSE TRUE
    IN  [result |-> result,
         victory_count |-> IF celebrate THEN 1 ELSE count,
         celebrate |-> celebrate]

\* check_endgame that also writes victory_count when the game is over
check_endgame_over(tab, count) ==
    LET celebrate == AnyIn(Target, tab) /\ count = 0
        result == IF AnyIn(0, tab) THEN FALSE
                  ELSE IF AnyEqual(tab, HorizontalOrder) THEN FALSE
                  ELSE IF AnyEqual(tab, VerticalOrder) THEN FALSE
                  ELSE TRUE
    IN  [result |-> result,
         victory_count |-> IF celebrate \/ result THEN 1 ELSE count,
         celebrate |-> celebrate]

\* check_endgame without its last loop, the one over the columns
check_endgame_rows(tab, count) ==
    LET celebrate == AnyIn(Target, tab) /\ count = 0
        result == IF AnyIn(0, tab) THEN FALSE
                  ELSE IF AnyEqual(tab, HorizontalOrder) THEN FALSE
                  ELSE TRUE
    IN  [result |-> result,
         victory_count |-> IF celebrate THEN 1 ELSE count,
         celebrate |-> celebrate]

\* check_endgame that takes every full board for the end of the game
check_endgame_full(tab, count) ==
    LET celebrate == AnyIn(Target, tab) /\ count = 0
    IN  [result |-> ~AnyIn(0, tab),
         victory_count |-> IF celebrate THEN 1 ELSE count,
         celebrate |-> celebrate]

check_endgame(tab, count) ==
    LET celebrate == AnyIn(Target, tab) /\ count = 0
        result == IF AnyIn(0, tab) THEN FALSE
                  ELSE IF AnyEqual(tab, HorizontalOrder) THEN FALSE
                  ELSE IF AnyEqual(tab, VerticalOrder) THEN FALSE
                  ELSE TRUE
    IN  [result |-> result,
         victory_count |-> IF celebrate THEN 1 ELSE count,
         celebrate |-> celebrate]

(***************************************************************************)
(* newgame(): the prompt; on yes a fresh board, no points, no celebration  *)
(* seen.  s is [gameboard, points, victory_count]; fresh is the board      *)
(* initialisation() returns.                                               *)
(***************************************************************************)
\* newgame() without points = 0
newgame_points(answer, fresh, s) ==
    IF answer
    THEN [gameboard |-> fresh, points |-> s.points, victory_count |-> 0]
    ELSE s

newgame(answer, fresh, s) ==
    IF answer
    THEN [gameboard |-> fresh, points |-> 0, victory_count |-> 0]
    ELSE s

(***************************************************************************)
(* The leaderboard file.  exists tells whether leaderboard.json is there   *)
(* and form what it holds:                                                 *)
(*   "array"   a JSON array of integers and booleans, which json.load      *)
(*             reads as a list of int and bool: scores holds the values    *)
(*             (True is 1, False is 0) and bools tells which are booleans; *)
(*   "text"    not JSON: json.load raises;                                 *)
(*   "object"  JSON that is not an array: scores.append raises;            *)
(*   "strings" a JSON array holding a string: scores.sort raises.          *)
(* The program writes arrays of integers only.                             *)
(***************************************************************************)
NoFile == [exists |-> FALSE, form |-> "array", scores |-> <<>>, bools |-> <<>>]

Array(scores, bools) ==
    [exists |-> TRUE, form |-> "array", scores |-> scores, bools |-> bools]

File(scores) == Array(scores, [k \in 1..Len(scores) |-> FALSE])

Garbled(form) == [exists |-> TRUE, form |-> form, scores |-> <<>>, bools |-> <<>>]

\* the list json.load returns, an entry being <<value, bool>>
Loaded(file) == [k \in 1..Len(file.scores) |-> <<file.scores[k], file.bools[k]>>]

\* json.dump(scores, f)
Dumped(entries) ==
    Array([k \in 1..Len(entries) |-> entries[k][1]],
          [k \in 1..Len(entries) |-> entries[k][2]])

(***************************************************************************)
(* update_top_score(label_highscore, points): label is the number the BEST *)
(* label shows.  When a statement raises, the file and the label are as    *)
(* they were and raised is TRUE.                                           *)
(***************************************************************************)
\* update_top_score without scores.sort(reverse=True)
update_top_score_unsorted(label, file, score) ==
    IF file.exists
    THEN IF file.form # "array"
         THEN [file |-> file, label |-> label, raised |-> TRUE]
         ELSE LET loaded == Append(Loaded(file), <<score, FALSE>>)
                  scores == SubSeq(loaded, 1, Min(Retention, Len(loaded)))
              IN  [file |-> Dumped(scores),
                   label |-> SeqMax(Dumped(scores).scores),
                   raised |-> FALSE]
    ELSE [file |-> file, label |-> score, raised |-> FALSE]

\* update_top_score whose label is the best of the list as it was loaded,
\* before the score is appended
update_top_score_stale(label, file, score) ==
    IF file.exists
    THEN IF file.form # "array"
         THEN [file |-> file, label |-> label, raised |-> TRUE]
         ELSE LET sorted == SortDesc(Append(Loaded(file), <<score, FALSE>>))
                  scores == SubSeq(sorted, 1, Min(Retention, Len(sorted)))
              IN  [file |-> Dumped(scores),
                   label |-> IF Len(file.scores) = 0 THEN 0 ELSE SeqMax(file.scores),
                   raised |-> FALSE]
    ELSE [file |-> file, label |-> score, raised |-> FALSE]

update_top_score(label, file, score) ==
    IF file.exists
    THEN IF file.form # "array"
         THEN [file |-> file, label |-> label, raised |-> TRUE]
         ELSE LET sorted == SortDesc(Append(Loaded(file), <<score, FALSE>>))
                  scores == SubSeq(sorted, 1, Min(Retention, Len(sorted)))
              IN  [file |-> Dumped(scores),
                   label |-> SeqMax(Dumped(scores).scores),
                   raised |-> FALSE]
    ELSE [file |-> file, label |-> score, raised |-> FALSE]

\* top_score() on a file that holds an array; score is the global points
top_score(file, score) ==
    IF file.exists
    THEN SeqMax(IF Len(file.scores) = 0 THEN Append(file.scores, 0) ELSE file.scores)
    ELSE score

reset_leaderboard(label, file) ==
    update_top_score(label, IF file.exists THEN File(<<0>>) ELSE file, 0)

(***************************************************************************)
(* The state after construction (lines 515-520): a fresh board, no points, *)
(* no celebration seen, the BEST label from top_score().  The leaderboard  *)
(* file is whatever the directory holds when the program starts.           *)
(***************************************************************************)
StartFiles == {NoFile, File(<<12, 4>>)}

\* what last holds when the last call was not position()
Idle(op, answer) ==
    [op |-> op, position_user |-> "", tab |-> EmptyBoard, score |-> 0,
     moved |-> EmptyBoard, merged |-> 0, drawn |-> 0, spawned |-> EmptyBoard,
     file |-> NoFile, raised |-> FALSE, count |-> 0, celebrate |-> FALSE,
     seen |-> 0, over |-> FALSE, answer |-> answer]

Init ==
    /\ gameboard \in initialisation
    /\ points = 0
    /\ victory_count = 0
    /\ LEADERBOARD \in StartFiles
    /\ label_highscore = top_score(LEADERBOARD, 0)
    /\ last = Idle("initialisation", FALSE)
    /\ budget = MaxCalls

(***************************************************************************)
(* position(position_user, gameboard, points, ...): a direction key.       *)
(* last keeps the board and score it was called with, the board after      *)
(* move-merge-move, the score after the merges, the value drawn for the    *)
(* new tile (0 when add_two was not called), the board after add_two (the  *)
(* moved board when it was not called), the file update_top_score found    *)
(* and whether it raised, victory_count before and after check_endgame and *)
(* whether the celebration was raised, what check_endgame returned and the *)
(* answer to the prompt (FALSE when none was raised).  An exception of     *)
(* update_top_score (line 286) ends the call there: the globals points and *)
(* gameboard are assigned (lines 282-283), check_endgame is not reached.   *)
(***************************************************************************)
Position(position_user) ==
    /\ budget > 0
    /\ \E m \in {MoveMerge(position_user, gameboard, points)} :
       \E k \in (IF gameboard # m.tab THEN Choices(m.tab) ELSE {1}) :
       \E v \in (IF gameboard # m.tab THEN {2, 4} ELSE {2}) :
       \E tab \in {Spawn(gameboard, m.tab, k, v)} :
       \E top \in {update_top_score(label_highscore, LEADERBOARD, m.score)} :
       \E ended \in {IF top.raised
                     THEN [result |-> FALSE, victory_count |-> victory_count,
                           celebrate |-> FALSE]
                     ELSE check_endgame(tab, victory_count)} :
       \E answer \in (IF ended.result THEN BOOLEAN ELSE {FALSE}) :
       \E fresh \in (IF answer THEN initialisation ELSE {tab}) :
       \E s \in {newgame(answer, fresh,
                     [gameboard |-> tab, points |-> m.score,
                      victory_count |-> ended.victory_count])} :
          /\ gameboard' = s.gameboard
          /\ points' = s.points
          /\ victory_count' = s.victory_count
          /\ LEADERBOARD' = top.file
          /\ label_highscore' = top.label
          /\ last' = [op |-> "position", position_user |-> position_user,
                      tab |-> gameboard, score |-> points,
                      moved |-> m.tab, merged |-> m.score,
                      drawn |-> IF gameboard # m.tab THEN v ELSE 0,
                      spawned |-> tab, file |-> LEADERBOARD,
                      raised |-> top.raised, count |-> victory_count,
                      celebrate |-> ended.celebrate,
                      seen |-> ended.victory_count, over |-> ended.result,
                      answer |-> answer]
          /\ budget' = budget - 1

(***************************************************************************)
(* Options > New Game: newgame() called from the menu.                     *)
(***************************************************************************)
NewGame ==
    /\ budget > 0
    /\ \E answer \in BOOLEAN :
       \E fresh \in (IF answer THEN initialisation ELSE {gameboard}) :
         LET s == newgame(answer, fresh,
                      [gameboard |-> gameboard, points |-> points,
                       victory_count |-> victory_count])
         IN  /\ gameboard' = s.gameboard
             /\ points' = s.points
             /\ victory_count' = s.victory_count
             /\ last' = Idle("newgame", answer)
             /\ budget' = budget - 1
             /\ UNCHANGED <<LEADERBOARD, label_highscore>>

(***************************************************************************)
(* Options > Reset Highscore: reset_leaderboard().                         *)
(***************************************************************************)
ResetLeaderboard ==
    /\ budget > 0
    /\ LET top == reset_leaderboard(label_highscore, LEADERBOARD)
       IN  /\ LEADERBOARD' = top.file
           /\ label_highscore' = top.label
    /\ last' = Idle("reset_leaderboard", FALSE)
    /\ budget' = budget - 1
    /\ UNCHANGED <<gameboard, points, victory_count>>

Next ==
    \/ \E position_user \in Tokens : Position(position_user)
    \/ NewGame
    \/ ResetLeaderboard

Spec == Init /\ [][Next]_vars

(***************************************************************************)
(* Sessions in play.  Each is the state of a session recorded from a game  *)
(* played with the functions of src/engine.py, the leaderboard file being  *)
(* absent or [12, 4] when the program started: some one or two moves       *)
(* before the board became terminal, some early in the game.               *)
(***************************************************************************)
PlayedSessions == {
    \* game 0 of 68 moves, 1 before the last
    [gameboard |-> <<<<2, 8, 4, 2>>, <<16, 32, 2, 4>>, <<8, 64, 8, 2>>, <<8, 2, 16, 0>>>>,
     points |-> 504, victory_count |-> 0, LEADERBOARD |-> File(<<504, 496>>),
     label_highscore |-> 504],
    \* game 2 of 131 moves, 1 before the last
    [gameboard |-> <<<<4, 2, 16, 4>>, <<2, 8, 128, 2>>, <<8, 64, 32, 16>>, <<2, 8, 8, 4>>>>,
     points |-> 1200, victory_count |-> 0, LEADERBOARD |-> File(<<1200, 1200>>),
     label_highscore |-> 1200],
    \* game 3 of 71 moves, 1 before the last
    [gameboard |-> <<<<2, 4, 64, 8>>, <<2, 8, 4, 2>>, <<16, 4, 32, 8>>, <<8, 2, 8, 4>>>>,
     points |-> 476, victory_count |-> 0, LEADERBOARD |-> NoFile,
     label_highscore |-> 476],
    \* game 10 of 92 moves, 1 before the last
    [gameboard |-> <<<<4, 16, 4, 8>>, <<2, 32, 128, 2>>, <<8, 2, 8, 8>>, <<4, 16, 4, 2>>>>,
     points |-> 884, victory_count |-> 0, LEADERBOARD |-> File(<<884, 876>>),
     label_highscore |-> 884],
    \* game 11 of 95 moves, 1 before the last
    [gameboard |-> <<<<4, 16, 4, 4>>, <<8, 64, 2, 4>>, <<4, 8, 64, 2>>, <<32, 2, 8, 4>>>>,
     points |-> 752, victory_count |-> 0, LEADERBOARD |-> NoFile,
     label_highscore |-> 752],
    \* game 14 of 65 moves, 1 before the last
    [gameboard |-> <<<<4, 4, 16, 4>>, <<4, 16, 8, 2>>, <<32, 2, 32, 8>>, <<16, 8, 4, 2>>>>,
     points |-> 348, victory_count |-> 0, LEADERBOARD |-> File(<<348, 348>>),
     label_highscore |-> 348],
    \* game 5 of 160 moves, 1 before the last
    [gameboard |-> <<<<4, 8, 16, 2>>, <<64, 128, 64, 8>>, <<16, 2, 16, 32>>, <<16, 4, 2, 4>>>>,
     points |-> 1516, victory_count |-> 0, LEADERBOARD |-> NoFile,
     label_highscore |-> 1516],
    \* game 24 of 89 moves, 1 before the last
    [gameboard |-> <<<<2, 8, 4, 2>>, <<16, 32, 4, 4>>, <<32, 8, 16, 2>>, <<4, 2, 8, 64>>>>,
     points |-> 604, victory_count |-> 0, LEADERBOARD |-> File(<<604, 596>>),
     label_highscore |-> 604],
    \* game 2 of 131 moves, 2 before the last
    [gameboard |-> <<<<4, 2, 16, 4>>, <<2, 8, 128, 2>>, <<8, 64, 32, 16>>, <<2, 8, 8, 4>>>>,
     points |-> 1200, victory_count |-> 0, LEADERBOARD |-> File(<<1200, 1192>>),
     label_highscore |-> 1200],
    \* game 0 of 68 moves, after 12 moves
    [gameboard |-> <<<<4, 8, 2, 8>>, <<0, 0, 4, 8>>, <<0, 0, 0, 0>>, <<0, 0, 2, 0>>>>,
     points |-> 32, victory_count |-> 0, LEADERBOARD |-> File(<<32, 24>>),
     label_highscore |-> 32],
    \* game 1 of 52 moves, after 12 moves
    [gameboard |-> <<<<0, 0, 0, 0>>, <<0, 2, 0, 0>>, <<0, 0, 0, 4>>, <<2, 8, 16, 4>>>>,
     points |-> 48, victory_count |-> 0, LEADERBOARD |-> NoFile,
     label_highscore |-> 48]
    }

InitPlay ==
    /\ \E s \in PlayedSessions :
        /\ gameboard = s.gameboard
        /\ points = s.points
        /\ victory_count = s.victory_count
        /\ LEADERBOARD = s.LEADERBOARD
        /\ label_highscore = s.label_highscore
    /\ last = Idle("played", FALSE)
    /\ budget = MaxCalls

SpecPlay == InitPlay /\ [][Next]_vars

(***************************************************************************)
(* Sessions recorded one key press before an event of the game: a score    *)
(* between or below the two entries of a leaderboard that was [500, 300]   *)
(* when the program started, the first 2048 tile, the end of the game.     *)
(***************************************************************************)
EventSessions == {
    \* game 13 started on [500, 300], after 25 moves
    [gameboard |-> <<<<0, 4, 0, 0>>, <<4, 2, 0, 0>>, <<16, 16, 4, 0>>, <<8, 2, 8, 4>>>>,
     points |-> 100, victory_count |-> 0, LEADERBOARD |-> File(<<500, 300>>),
     label_highscore |-> 500],
    \* game 1 started on [500, 300], after 43 moves
    [gameboard |-> <<<<16, 32, 2, 2>>, <<2, 16, 4, 0>>, <<4, 8, 32, 0>>, <<2, 0, 2, 0>>>>,
     points |-> 296, victory_count |-> 0, LEADERBOARD |-> File(<<500, 300>>),
     label_highscore |-> 500],
    \* a game started on [12, 4] with moves and draws picked to build large
    \* tiles, after 570 moves
    [gameboard |-> <<<<0, 1024, 1024, 64>>, <<4, 16, 8, 128>>, <<0, 0, 0, 8>>, <<0, 0, 0, 8>>>>,
     points |-> 17340, victory_count |-> 0, LEADERBOARD |-> File(<<17340, 16308>>),
     label_highscore |-> 17340]
    } \cup {s \in PlayedSessions : s.points = 604}

InitEvent ==
    /\ \E s \in EventSessions :
        /\ gameboard = s.gameboard
        /\ points = s.points
        /\ victory_count = s.victory_count
        /\ LEADERBOARD = s.LEADERBOARD
        /\ label_highscore = s.label_highscore
    /\ last = Idle("played", FALSE)
    /\ budget = MaxCalls

SpecEvent == InitEvent /\ [][Next]_vars

(***************************************************************************)
(* Sessions in play whose leaderboard.json was replaced from outside the   *)
(* program since the last handler ran: the handlers read the file anew at  *)
(* each call.  The label is the one the session last set.                  *)
(***************************************************************************)
DiskFiles == {
    \* not JSON
    Garbled("text"),
    \* {"best": 12}
    Garbled("object"),
    \* ["a", 5]
    Garbled("strings"),
    \* [true, false]
    Array(<<1, 0>>, <<TRUE, FALSE>>),
    \* [7], a list the program may have written
    File(<<7>>)
    }

InitFile ==
    /\ \E s \in PlayedSessions :
        /\ gameboard = s.gameboard
        /\ points = s.points
        /\ victory_count = s.victory_count
        /\ label_highscore = s.label_highscore
    /\ LEADERBOARD \in DiskFiles
    /\ last = Idle("played", FALSE)
    /\ budget = MaxCalls

SpecFile == InitFile /\ [][Next]_vars

(***************************************************************************)
(* The handlers as functions of their arguments: position() is called with *)
(* the board as tab and the points as score.  The boards are all those     *)
(* whose four rows are drawn from InputRows, and position() is called once.*)
(***************************************************************************)
InputRows == {
    <<0, 0, 0, 0>>, <<2, 2, 2, 2>>, <<2, 2, 4, 0>>, <<0, 2, 0, 2>>,
    <<2, 2, 4, 4>>, <<4, 0, 8, 8>>, <<2, 4, 2, 4>>, <<4, 2, 4, 2>>,
    <<8, 16, 8, 16>>, <<2, 4, 8, 0>>
    }

\* the points of the session, and a leaderboard file that holds them
InputScores == {20}

InputFiles == {File(<<40, 20>>)}

InitInput ==
    /\ gameboard \in [1..N -> InputRows]
    /\ points \in InputScores
    /\ victory_count = 0
    /\ LEADERBOARD \in InputFiles
    /\ label_highscore = top_score(LEADERBOARD, points)
    /\ last = Idle("called", FALSE)
    /\ budget = 1

NextInput == \E position_user \in Tokens : Position(position_user)

SpecInput == InitInput /\ [][NextInput]_vars

(***************************************************************************)
(* add_two(tab) called on its own on each of the input boards, full ones   *)
(* included, with every draw choice(empty_cells) and choice((2, 4)) can    *)
(* make.  last keeps the board it was called with, the value drawn (0 when *)
(* the board is full and nothing is drawn) and the board it returned.      *)
(***************************************************************************)
AddTwo ==
    /\ budget > 0
    /\ \E cells \in {empty_cells(gameboard)} :
       \E k \in (IF cells = <<>> THEN {1} ELSE 1..Len(cells)) :
       \E v \in (IF cells = <<>> THEN {0} ELSE {2, 4}) :
       \E tab \in {add_two(gameboard, k, v)} :
          /\ gameboard' = tab
          /\ last' = [Idle("add_two", FALSE) EXCEPT
                         !.tab = gameboard, !.drawn = v, !.spawned = tab]
    /\ budget' = budget - 1
    /\ UNCHANGED <<points, victory_count, LEADERBOARD, label_highscore>>

SpecAddTwo == InitInput /\ [][AddTwo]_vars

(***************************************************************************)
(* The branch of position() for one direction (lines 262-277), one call at *)
(* a time, on each of the input boards: move_x(tab), then merge_x(tab,     *)
(* score), then move_x(tab) again.  gameboard is tab, which the functions  *)
(* change in place, and points is score.  last keeps the direction, the    *)
(* board and score the branch began with and, in moved, the board the call *)
(* of merge_x was given; last.op is the call made last.                    *)
(***************************************************************************)
MoveTo(position_user, tab) ==
    IF position_user = "UP" THEN move_up(tab)
    ELSE IF position_user = "DOWN" THEN move_down(tab)
    ELSE IF position_user = "LEFT" THEN move_left(tab)
    ELSE move_right(tab)

MergeTo(position_user, tab, score) ==
    IF position_user = "UP" THEN merge_up(tab, score)
    ELSE IF position_user = "DOWN" THEN merge_down(tab, score)
    ELSE IF position_user = "LEFT" THEN merge_left(tab, score)
    ELSE merge_right(tab, score)

CallMove(position_user) ==
    /\ last.op = "called"
    /\ gameboard' = MoveTo(position_user, gameboard)
    /\ last' = [Idle("move", FALSE) EXCEPT !.position_user = position_user,
                   !.tab = gameboard, !.score = points]
    /\ budget' = budget
    /\ UNCHANGED <<points, victory_count, LEADERBOARD, label_highscore>>

CallMerge ==
    /\ last.op = "move"
    /\ \E m \in {MergeTo(last.position_user, gameboard, points)} :
          /\ gameboard' = [i \in 1..N |-> [j \in 1..N |-> m.tab[i][j]]]
          /\ points' = m.score
    /\ last' = [last EXCEPT !.op = "merge", !.moved = gameboard]
    /\ budget' = budget
    /\ UNCHANGED <<victory_count, LEADERBOARD, label_highscore>>

CallMoveAgain ==
    /\ last.op = "merge"
    /\ gameboard' = MoveTo(last.position_user, gameboard)
    /\ last' = [last EXCEPT !.op = "move_again", !.merged = points]
    /\ budget' = budget - 1
    /\ UNCHANGED <<points, victory_count, LEADERBOARD, label_highscore>>

NextBranch ==
    \/ \E position_user \in Directions : CallMove(position_user)
    \/ CallMerge
    \/ CallMoveAgain

SpecBranch == InitInput /\ [][NextBranch]_vars

(***************************************************************************)
(* What the rules of the game ask of a move, stated on the tiles of one    *)
(* line and not on cells: the tiles of a line are listed from the edge     *)
(* they are pushed to; two equal neighbours become one tile of twice the   *)
(* value, which is kept as it is, and the listing goes on behind them.     *)
(***************************************************************************)
RECURSIVE PushTiles(_)
PushTiles(tiles) ==
    IF Len(tiles) < 2 THEN [out |-> tiles, gain |-> 0]
    ELSE IF tiles[1] = tiles[2]
    THEN LET rest == PushTiles(SubSeq(tiles, 3, Len(tiles)))
         IN  [out |-> <<2 * tiles[1]>> \o rest.out, gain |-> 2 * tiles[1] + rest.gain]
    ELSE LET rest == PushTiles(Tail(tiles))
         IN  [out |-> <<tiles[1]>> \o rest.out, gain |-> rest.gain]

Reverse(line) == [k \in 1..Len(line) |-> line[Len(line) + 1 - k]]

\* line n of the board, listed from the edge direction pushes to
Line(direction, tab, n) ==
    IF direction = "LEFT" THEN tab[n]
    ELSE IF direction = "RIGHT" THEN Reverse(tab[n])
    ELSE IF direction = "UP" THEN Column(tab, n)
    ELSE Reverse(Column(tab, n))

Pushed(direction, tab, n) ==
    LET tiles == PushTiles(SelectSeq(Line(direction, tab, n), LAMBDA x : x > 0)).out
    IN  tiles \o [k \in 1..(N - Len(tiles)) |-> 0]

\* the board whose lines are lines, each listed from the edge pushed to
Board(direction, lines) ==
    [i \in 1..N |-> [j \in 1..N |->
        IF direction = "LEFT" THEN lines[i][j]
        ELSE IF direction = "RIGHT" THEN lines[i][N + 1 - j]
        ELSE IF direction = "UP" THEN lines[j][i]
        ELSE lines[j][N + 1 - i]]]

\* the board whose lines are the pushed lines
PushedBoard(direction, tab) ==
    CHOOSE board \in {Board(direction, lines) :
                        lines \in {[n \in 1..N |-> Pushed(direction, tab, n)]}} : TRUE

RECURSIVE GainUpTo(_, _, _)
GainUpTo(direction, tab, n) ==
    IF n = 0 THEN 0
    ELSE PushTiles(SelectSeq(Line(direction, tab, n), LAMBDA x : x > 0)).gain
         + GainUpTo(direction, tab, n - 1)

\* the doubled values of all the tiles the merges of one move create
PushedGain(direction, tab) == GainUpTo(direction, tab, N)

RECURSIVE RowsSum(_, _)
RowsSum(tab, n) == IF n = 0 THEN 0 ELSE SeqSum(tab[n]) + RowsSum(tab, n - 1)

\* the sum of all the values of a board
BoardSum(tab) == RowsSum(tab, N)

Cells == (1..N) \X (1..N)

\* the cells at which two boards differ
Differ(a, b) == {c \in Cells : a[c[1]][c[2]] # b[c[1]][c[2]]}

Moved == last.op = "position"

(***************************************************************************)
(* C1.  In each of the four directions no tile takes part in more than one *)
(* merge of a move: the board after move-merge-move is the board of the    *)
(* pushed lines, in which a doubled tile is never compared again.  So a    *)
(* row 2 2 2 2 moved LEFT is 4 4 0 0, not 8 0 0 0, and so is 2 2 4 0.      *)
(***************************************************************************)
C1_OneMergePerTile ==
    (Moved /\ last.position_user \in Directions)
        => last.moved = PushedBoard(last.position_user, last.tab)

C1_Witness ==
    /\ Moved
    /\ last.position_user = "LEFT"
    /\ last.tab[1] = <<2, 2, 2, 2>>
    /\ last.moved[1] = <<4, 4, 0, 0>>
    /\ last.tab[2] = <<2, 2, 4, 0>>
    /\ last.moved[2] = <<4, 4, 0, 0>>

(***************************************************************************)
(* C2.  A move adds to the score the doubled values of the tiles its       *)
(* merges create and nothing else, and the points of a game never go down  *)
(* from one move to the next (they are set to 0 only when a new game is    *)
(* started).                                                               *)
(***************************************************************************)
C2_ScoreAddsMerged ==
    [][(last'.op = "position" /\ last'.position_user \in Directions)
          => /\ last'.merged = points + PushedGain(last'.position_user, gameboard)
             /\ ~last'.answer => (points' = last'.merged /\ points' >= points)]_vars

C2_Witness ==
    /\ Moved
    /\ last.position_user = "UP"
    /\ last.merged > last.score
    /\ points = last.merged

(***************************************************************************)
(* C3.  A tile is added exactly when the move changed the board: then the  *)
(* moved board has an empty cell and the board after add_two differs from  *)
(* it in one cell, which was empty and now holds 2 or 4; when the move     *)
(* left the board as it was, nothing is added and board and score are the  *)
(* ones position() was called with.                                        *)
(***************************************************************************)
C3_SpawnIffChanged ==
    Moved =>
        IF last.moved # last.tab
        THEN /\ \E c \in Cells : last.moved[c[1]][c[2]] = 0
             /\ Cardinality(Differ(last.moved, last.spawned)) = 1
             /\ \A c \in Differ(last.moved, last.spawned) :
                    /\ last.moved[c[1]][c[2]] = 0
                    /\ last.spawned[c[1]][c[2]] \in {2, 4}
        ELSE /\ last.spawned = last.tab
             /\ last.merged = last.score
             /\ last.drawn = 0

C3_Witness ==
    /\ Moved
    /\ last.moved # last.tab
    /\ Cardinality(Differ(last.moved, last.spawned)) = 1
    /\ \A c \in Cells : last.tab[c[1]][c[2]] # 0

(***************************************************************************)
(* C4.  Move and merge keep the sum of the values of the board; the whole  *)
(* move adds to it the value of the tile it spawned, 0 when it spawned     *)
(* none.                                                                   *)
(***************************************************************************)
C4_SumConserved ==
    Moved =>
        /\ BoardSum(last.moved) = BoardSum(last.tab)
        /\ BoardSum(last.spawned) = BoardSum(last.tab) + last.drawn

C4_Witness ==
    /\ Moved
    /\ last.position_user = "DOWN"
    /\ last.merged > last.score
    /\ last.drawn = 4
    /\ BoardSum(last.spawned) = BoardSum(last.tab) + 4

(***************************************************************************)
(* C5 as the specification states it.  The same direction applied again to *)
(* the board a move produced, with no tile added in between, changes       *)
(* neither the board nor the score.                                        *)
(***************************************************************************)
C5_SecondMoveIdle ==
    (Moved /\ last.position_user \in Directions)
        => MoveMerge(last.position_user, last.moved, last.merged)
               = [tab |-> last.moved, score |-> last.merged]

\* two equal tiles next to each other on a line of the direction
PairAlong(direction, tab) ==
    \E c \in Cells :
        /\ tab[c[1]][c[2]] # 0
        /\ IF direction \in {"LEFT", "RIGHT"}
           THEN c[2] < N /\ tab[c[1]][c[2] + 1] = tab[c[1]][c[2]]
           ELSE c[1] < N /\ tab[c[1] + 1][c[2]] = tab[c[1]][c[2]]

(***************************************************************************)
(* C5, amended.  The same direction applied again to the board a move      *)
(* produced, with no tile added in between, changes neither the board nor  *)
(* the score exactly when that board has no two equal tiles next to each   *)
(* other along the direction; when it has, the second move merges them     *)
(* (2 2 2 2 moved LEFT is 4 4 0 0, and moved LEFT again 8 0 0 0).          *)
(***************************************************************************)
C5_SecondMoveIdleIffNoPair ==
    (Moved /\ last.position_user \in Directions)
        => ((MoveMerge(last.position_user, last.moved, last.merged)
                 = [tab |-> last.moved, score |-> last.merged])
            <=> ~PairAlong(last.position_user, last.moved))

C5_Witness ==
    /\ Moved
    /\ last.position_user = "RIGHT"
    /\ last.moved # last.tab
    /\ ~PairAlong("RIGHT", last.moved)
    /\ MoveMerge("RIGHT", last.moved, last.merged).tab = last.moved

RECURSIVE IsPowerOfTwo(_)
IsPowerOfTwo(v) == v >= 2 /\ (v = 2 \/ (v % 2 = 0 /\ IsPowerOfTwo(v \div 2)))

(***************************************************************************)
(* C6.  In every state reached from initialisation() each of the 16 cells  *)
(* of the board is 0 or a power of two that is at least 2.                 *)
(***************************************************************************)
C6_PowersOfTwo ==
    /\ DOMAIN gameboard = 1..N
    /\ \A i \in 1..N : DOMAIN gameboard[i] = 1..N
    /\ \A c \in Cells : gameboard[c[1]][c[2]] = 0 \/ IsPowerOfTwo(gameboard[c[1]][c[2]])

C6_Witness ==
    /\ Moved
    /\ last.position_user = "RIGHT"
    /\ last.merged > last.score
    /\ gameboard = last.spawned
    /\ \E c \in Cells : gameboard[c[1]][c[2]] = 8

(***************************************************************************)
(* C7 as the specification states it.  A call of position() with a token   *)
(* that is not UP, DOWN, LEFT or RIGHT leaves board, score and leaderboard *)
(* as they were.                                                           *)
(***************************************************************************)
C7_InvalidDirectionRejected ==
    [][(last'.op = "position" /\ last'.position_user \notin Directions)
          => (gameboard' = gameboard /\ points' = points
              /\ LEADERBOARD' = LEADERBOARD)]_vars

\* no empty cell, no two equal neighbours in a row, none in a column
Stuck(tab) ==
    /\ \A c \in Cells : tab[c[1]][c[2]] # 0
    /\ \A i \in 1..N : \A j \in 1..(N - 1) : tab[i][j] # tab[i][j + 1]
    /\ \A i \in 1..(N - 1) : \A j \in 1..N : tab[i][j] # tab[i + 1][j]

(***************************************************************************)
(* C8.  check_endgame returns true exactly for the boards with no empty    *)
(* cell, no two equal neighbours in a row and none in a column: on the     *)
(* board of the session and on the board each call of position() hands it. *)
(***************************************************************************)
C8_TerminalIffStuck ==
    /\ check_endgame(gameboard, victory_count).result <=> Stuck(gameboard)
    /\ Moved => (last.over <=> Stuck(last.spawned))

C8_Witness ==
    /\ Moved
    /\ last.over
    /\ last.spawned = <<<<2, 4, 2, 4>>, <<4, 2, 4, 2>>, <<2, 4, 2, 4>>, <<4, 2, 4, 2>>>>

\* no direction changes the board
NoMoveLeft(tab) == \A d \in Directions : MoveMerge(d, tab, 0).tab = tab

(***************************************************************************)
(* C9.  A board that holds a tile is terminal for check_endgame exactly    *)
(* when move-merge-move returns it unchanged in each of the four           *)
(* directions.                                                             *)
(***************************************************************************)
C9_TerminalIffNoMove ==
    \A tab \in {gameboard, last.spawned} :
        (\E c \in Cells : tab[c[1]][c[2]] # 0)
            => (check_endgame(tab, victory_count).result <=> NoMoveLeft(tab))

(***************************************************************************)
(* C9 as a property of every state of a behaviour: at all times the board  *)
(* of the session and the board position() handed to check_endgame, when   *)
(* they hold a tile, are terminal exactly when no direction changes them.  *)
(***************************************************************************)
C9_AlwaysTerminalIffNoMove == []C9_TerminalIffNoMove

C9_Witness ==
    /\ Moved
    /\ last.moved # last.tab
    /\ last.over
    /\ ~last.answer
    /\ NoMoveLeft(gameboard)

(***************************************************************************)
(* C10 as the specification states it.  Once the board of the session is   *)
(* terminal, a direction key changes neither the board, nor the score, nor *)
(* the leaderboard file, unless a new game is started at the prompt.       *)
(***************************************************************************)
C10_GameOverAcceptsNoMove ==
    [][(check_endgame(gameboard, victory_count).result
        /\ last'.op = "position" /\ ~last'.answer)
          => (gameboard' = gameboard /\ points' = points
              /\ LEADERBOARD' = LEADERBOARD)]_vars

\* how many entries of the list s are x
Count(s, x) == Cardinality({k \in DOMAIN s : s[k] = x})

\* the list s is in descending order
Descending(s) == \A k \in 1..(Len(s) - 1) : s[k] >= s[k + 1]

(***************************************************************************)
(* C11.  A move made while leaderboard.json holds a list of integers       *)
(* leaves in the file the largest Retention entries of that list with the  *)
(* score of the move added: the new list is in descending order, has one   *)
(* entry more than the old one but no more than Retention, every entry of  *)
(* it is an entry of the old list or the score, and every entry left out   *)
(* is no larger than the smallest one kept; the BEST label shows the       *)
(* largest.  So the file is in descending order with at most Retention     *)
(* entries after every move and after every reset.                         *)
(***************************************************************************)
C11_RecordKeepsTop ==
    /\ (Moved /\ last.file.exists /\ ~last.raised) =>
          LET all == Append(last.file.scores, last.merged)
              new == LEADERBOARD.scores
          IN  /\ LEADERBOARD.exists
              /\ Len(new) = Min(Retention, Len(all))
              /\ Descending(new)
              /\ \A k \in DOMAIN all :
                    /\ Count(new, all[k]) <= Count(all, all[k])
                    /\ Count(new, all[k]) < Count(all, all[k])
                          => all[k] <= new[Len(new)]
              /\ \A k \in DOMAIN new : Count(all, new[k]) > 0
              /\ label_highscore = new[1]
              /\ \A k \in DOMAIN all : label_highscore >= all[k]
    /\ (LEADERBOARD.exists /\ last.op \in {"position", "reset_leaderboard"}
           /\ ~last.raised)
          => (Descending(LEADERBOARD.scores)
              /\ Len(LEADERBOARD.scores) <= Retention)

\* 100 recorded on [500, 300]
C11_Witness ==
    /\ Moved
    /\ last.file = File(<<500, 300>>)
    /\ last.merged = 100
    /\ LEADERBOARD = File(<<500, 300>>)
    /\ label_highscore = 500

(***************************************************************************)
(* C12 as the specification states it.  A move made while leaderboard.json *)
(* does not exist creates it: afterwards the file holds the score of the   *)
(* move as its only entry, and that score is the best.                     *)
(***************************************************************************)
C12_RecordCreatesFile ==
    [][(~LEADERBOARD.exists /\ last'.op = "position")
          => (LEADERBOARD' = File(<<last'.merged>>)
              /\ top_score(LEADERBOARD', last'.merged) = last'.merged)]_vars

(***************************************************************************)
(* C13 as the specification states it.  Reset Highscore leaves the list    *)
(* [0] in leaderboard.json, whatever the file held and whether or not it   *)
(* existed, and a second reset leaves what the first one left.             *)
(***************************************************************************)
C13_ResetLeavesZero ==
    [][last'.op = "reset_leaderboard"
          => (LEADERBOARD' = File(<<0>>)
              /\ reset_leaderboard(label_highscore', LEADERBOARD').file
                    = LEADERBOARD')]_vars

(***************************************************************************)
(* C14 as the specification states it.  The file holds final scores only:  *)
(* a move after which the game goes on (the board it leaves is not         *)
(* terminal) writes nothing to leaderboard.json.                           *)
(***************************************************************************)
C14_OnlyFinalScoresPersisted ==
    [][(last'.op = "position" /\ ~last'.over)
          => LEADERBOARD' = LEADERBOARD]_vars

(***************************************************************************)
(* C15.  The celebration is raised at most once between two confirmed new  *)
(* games.  A move raises it exactly when the board it leaves holds 2048    *)
(* and no move of the session raised it before (victory_count is 0); from  *)
(* then on victory_count is 1, and while it is 1 no move raises the        *)
(* celebration and only a confirmed new game sets it back to 0.  A move    *)
(* that raises the celebration ends the game only if the board it leaves   *)
(* is stuck, and after a confirmed new game victory_count is 0.            *)
(***************************************************************************)
C15_CelebratesOnce ==
    /\ [](/\ victory_count \in {0, 1}
          /\ (Moved /\ ~last.raised) =>
                /\ last.celebrate
                      <=> (AnyIn(Target, last.spawned) /\ last.count = 0)
                /\ (last.celebrate /\ ~last.answer) => victory_count = 1
                /\ (last.celebrate /\ last.over) => Stuck(last.spawned)
          /\ last.answer => victory_count = 0)
    /\ [][victory_count = 1
            => (~last'.celebrate /\ (victory_count' = 1 \/ last'.answer))]_vars

\* a move that leaves 2048 on the board after the celebration was raised
C15_Witness ==
    /\ Moved
    /\ last.count = 1
    /\ AnyIn(Target, last.spawned)
    /\ ~last.celebrate
    /\ ~last.over

\* the cells of the board that hold a tile
Tiles(tab) == {c \in Cells : tab[c[1]][c[2]] # 0}

\* the calls that end with gameboard = initialisation()
Fresh ==
    \/ last.op = "initialisation"
    \/ last.op \in {"position", "newgame"} /\ last.answer

(***************************************************************************)
(* C16.  The board initialisation() returns, at construction and at every  *)
(* confirmed new game, has 4 rows of 4 cells, exactly two of them with a   *)
(* tile, each tile a 2 or a 4, and 0 in the 14 other cells.                *)
(***************************************************************************)
C16_TwoTilesAtStart ==
    Fresh =>
        /\ DOMAIN gameboard = 1..N
        /\ \A i \in 1..N : DOMAIN gameboard[i] = 1..N
        /\ Cardinality(Tiles(gameboard)) = 2
        /\ \A c \in Tiles(gameboard) : gameboard[c[1]][c[2]] \in {2, 4}
        /\ Cardinality(Cells \ Tiles(gameboard)) = N * N - 2

\* a new game confirmed from the menu, its two tiles being different
C16_Witness ==
    /\ last.op = "newgame"
    /\ last.answer
    /\ {gameboard[c[1]][c[2]] : c \in Tiles(gameboard)} = {2, 4}

\* the file holds a JSON array of integers
WellFormed(file) ==
    file.form = "array" /\ \A k \in DOMAIN file.bools : ~file.bools[k]

(***************************************************************************)
(* C17 as the specification states it.  A move made while leaderboard.json *)
(* holds anything but a JSON array of integers ends in an error of         *)
(* update_top_score and leaves the file as it was.                         *)
(***************************************************************************)
C17_MalformedFileKept ==
    (Moved /\ last.file.exists /\ ~WellFormed(last.file))
        => (last.raised /\ LEADERBOARD = last.file)

\* a board as initialisation() returns it
TwoTiles(tab) ==
    /\ Cardinality(Tiles(tab)) = 2
    /\ \A c \in Tiles(tab) : tab[c[1]][c[2]] \in {2, 4}

(***************************************************************************)
(* C18.  After a move that position() processed to its end, the new-game   *)
(* prompt was raised exactly when the board with the new tile is stuck.    *)
(* Confirmed, the prompt leaves a board of two tiles as initialisation()   *)
(* returns it, no points and victory_count 0; declined, or not raised, it  *)
(* leaves the board with the new tile, the score after the merges and      *)
(* victory_count as check_endgame left it.                                 *)
(***************************************************************************)
C18_PromptIffTerminal ==
    (Moved /\ ~last.raised) =>
        /\ last.over <=> Stuck(last.spawned)
        /\ last.answer => last.over
        /\ last.answer =>
              (TwoTiles(gameboard) /\ points = 0 /\ victory_count = 0)
        /\ ~last.answer =>
              (gameboard = last.spawned /\ points = last.merged
               /\ victory_count = last.seen)

\* a move that scores, ends the game and is followed by a confirmed new game
C18_Witness ==
    /\ Moved
    /\ last.merged > last.score
    /\ last.over
    /\ last.answer
    /\ TwoTiles(gameboard)
    /\ points = 0

(***************************************************************************)
(* C19.  add_two called on a board with an empty cell returns the board    *)
(* with exactly one cell changed: a cell that was empty and now holds 2 or *)
(* 4.  Called on a board with no empty cell it returns the board as it     *)
(* was.                                                                    *)
(***************************************************************************)
C19_AddTwoFillsOneEmpty ==
    last.op = "add_two" =>
        IF \E c \in Cells : last.tab[c[1]][c[2]] = 0
        THEN /\ Cardinality(Differ(last.tab, gameboard)) = 1
             /\ \A c \in Differ(last.tab, gameboard) :
                   /\ last.tab[c[1]][c[2]] = 0
                   /\ gameboard[c[1]][c[2]] \in {2, 4}
        ELSE gameboard = last.tab

\* the tile is added in another cell than the first empty one
C19_Witness ==
    /\ last.op = "add_two"
    /\ Cardinality(Differ(last.tab, gameboard)) = 1
    /\ \E c \in Differ(last.tab, gameboard) :
          \E e \in Cells :
             /\ gameboard[e[1]][e[2]] = 0
             /\ e[1] < c[1]

ReverseRows(tab) == [i \in 1..N |-> Reverse(tab[i])]

Transpose(tab) == [i \in 1..N |-> [j \in 1..N |-> tab[j][i]]]

(***************************************************************************)
(* C21.  The four directions are mirror images of one another.  The board  *)
(* after move-merge-move to the RIGHT and what it adds to the score are    *)
(* those of the row-reversed board moved LEFT, reversed again; UP is LEFT  *)
(* on the transposed board, transposed back; DOWN is RIGHT on the          *)
(* transposed board, transposed back.                                      *)
(***************************************************************************)
C21_DirectionsMirror ==
    last.op = "move_again" =>
        LET gain == points - last.score
        IN  /\ last.position_user = "RIGHT" =>
                LET m == MoveMerge("LEFT", ReverseRows(last.tab), 0)
                IN  gameboard = ReverseRows(m.tab) /\ gain = m.score
            /\ last.position_user = "UP" =>
                LET m == MoveMerge("LEFT", Transpose(last.tab), 0)
                IN  gameboard = Transpose(m.tab) /\ gain = m.score
            /\ last.position_user = "DOWN" =>
                LET m == MoveMerge("RIGHT", Transpose(last.tab), 0)
                IN  gameboard = Transpose(m.tab) /\ gain = m.score

\* DOWN on a board with a column of three equal tiles under an empty cell,
\* where the order of the scan decides which two of them merge: the two
\* nearest the bottom edge do
C21_Witness ==
    /\ last.op = "move_again"
    /\ last.position_user = "DOWN"
    /\ \E j \in 1..N :
          /\ Column(last.tab, j) = <<0, 2, 2, 2>>
          /\ Column(gameboard, j) = <<0, 0, 2, 4>>
    /\ Transpose(last.tab) # last.tab
    /\ ReverseRows(last.tab) # last.tab
    /\ points > last.score

(***************************************************************************)
(* C22.  After a move that position() processed to its end, the number the *)
(* BEST label shows is at least the score the move left, and so at least   *)
(* the points of the session: with no leaderboard file the label is the    *)
(* score itself, with a file it is the largest entry of a list the score   *)
(* was appended to, and a reset before the move only lowers the entries    *)
(* the score is compared with.                                             *)
(***************************************************************************)
C22_BestAtLeastScore ==
    (Moved /\ ~last.raised) =>
        /\ label_highscore >= last.merged
        /\ label_highscore >= points

\* a move that merges after a reset left the file [0, 0] and the label 0
C22_Witness ==
    /\ Moved
    /\ last.file = File(<<0, 0>>)
    /\ last.merged > last.score
    /\ points = last.merged
    /\ LEADERBOARD = File(<<points, 0>>)
    /\ label_highscore = points

====
